---------------------------- MODULE Spec2Model ----------------------------
(***************************************************************************)
(* Model of src/bot.py: the Aviator prediction Telegram bot.               *)
(*                                                                         *)
(* Text is modelled as a sequence of one-character strings, so that the    *)
(* splitting, stripping, pattern matching and number conversion of the     *)
(* code are computed and not assumed.  A float is modelled by the integer  *)
(* number of 10^-FracDigits units it holds; every text of the model has at *)
(* most FracDigits fractional digits and fewer than 16 significant digits, *)
(* so float() and str() are exact on them.                                 *)
(***************************************************************************)
EXTENDS Integers, Sequences, FiniteSets, TLC

(***************************************************************************)
(* Bounds of the model.                                                    *)
(***************************************************************************)
\* Largest length of historical_data for which a message is still taken.
MaxLedger == 2
\* Fractional digits a modelled float keeps.
FracDigits == 1
\* Number of chat users talking to the one process.
NumUsers == 1

Scale == 10 ^ FracDigits
Users == 1..NumUsers

(***************************************************************************)
(* Python values.                                                          *)
(***************************************************************************)
\* A reply sent to the user, named by its kind; the prediction reply also
\* holds the numbers and the predicted value it shows.
Reply(kind) == [kind |-> kind]

\* Python's None, and a present value, for the places that hold either.
None == [none |-> TRUE]
Some(v) == [val |-> v]

Digits == {"0", "1", "2", "3", "4", "5", "6", "7", "8", "9"}
DigitVal(c) ==
    CASE c = "0" -> 0 [] c = "1" -> 1 [] c = "2" -> 2 [] c = "3" -> 3
      [] c = "4" -> 4 [] c = "5" -> 5 [] c = "6" -> 6 [] c = "7" -> 7
      [] c = "8" -> 8 [] c = "9" -> 9
DigitChar(d) == CHOOSE c \in Digits : DigitVal(c) = d

AllDigits(s) == \A i \in 1..Len(s) : s[i] \in Digits

\* str.strip(): leading and trailing white space removed.
RECURSIVE LStrip(_)
LStrip(s) == IF s # <<>> /\ Head(s) = " " THEN LStrip(Tail(s)) ELSE s
RECURSIVE RStrip(_)
RStrip(s) ==
    IF s # <<>> /\ s[Len(s)] = " " THEN RStrip(SubSeq(s, 1, Len(s) - 1)) ELSE s
Strip(s) == RStrip(LStrip(s))

\* str.lower() on the letters the model's texts use.
LowerChar(c) ==
    CASE c = "Y" -> "y" [] c = "E" -> "e" [] c = "S" -> "s"
      [] c = "N" -> "n" [] c = "O" -> "o" [] OTHER -> c
Lower(s) == [i \in 1..Len(s) |-> LowerChar(s[i])]

\* str.split(","): the pieces between the commas, empty pieces included.
RECURSIVE SplitFrom(_, _, _)
SplitFrom(s, i, cur) ==
    IF i > Len(s) THEN <<cur>>
    ELSE IF s[i] = "," THEN <<cur>> \o SplitFrom(s, i + 1, <<>>)
    ELSE SplitFrom(s, i + 1, Append(cur, s[i]))
Split(s) == SplitFrom(s, 1, <<>>)

\* re.match(r'^\d+(\.\d+)?$', s) on a stripped text.
DecimalPattern(s) ==
    \/ Len(s) >= 1 /\ AllDigits(s)
    \/ \E p \in 2..(Len(s) - 1) :
          /\ s[p] = "."
          /\ AllDigits(SubSeq(s, 1, p - 1))
          /\ AllDigits(SubSeq(s, p + 1, Len(s)))

RECURSIVE DigitsToInt(_)
DigitsToInt(s) ==
    IF s = <<>> THEN 0
    ELSE 10 * DigitsToInt(SubSeq(s, 1, Len(s) - 1)) + DigitVal(s[Len(s)])

\* The fractional digits of a text as units of 10^-FracDigits.
FracUnits(s) ==
    DigitsToInt([i \in 1..FracDigits |-> IF i <= Len(s) THEN s[i] ELSE "0"])

\* An unsigned decimal float() takes: digits, digits.digits, digits. or .digits
UnsignedFloatText(s) ==
    \/ Len(s) >= 1 /\ AllDigits(s)
    \/ \E p \in 1..Len(s) :
          /\ s[p] = "."
          /\ Len(s) >= 2
          /\ AllDigits(SubSeq(s, 1, p - 1))
          /\ AllDigits(SubSeq(s, p + 1, Len(s)))
UnsignedFloat(s) ==
    IF AllDigits(s) THEN Scale * DigitsToInt(s)
    ELSE LET p == CHOOSE q \in 1..Len(s) : s[q] = "."
         IN Scale * DigitsToInt(SubSeq(s, 1, p - 1))
              + FracUnits(SubSeq(s, p + 1, Len(s)))

HasSign(s) == s # <<>> /\ Head(s) \in {"-", "+"}
\* Whether float(s) returns (TRUE) or raises ValueError (FALSE).
FloatParses(s) ==
    LET t == Strip(s)
    IN UnsignedFloatText(IF HasSign(t) THEN Tail(t) ELSE t)
\* float(s), for a text float() takes.
Float(s) ==
    LET t == Strip(s)
    IN IF HasSign(t)
       THEN (IF Head(t) = "-" THEN -1 ELSE 1) * UnsignedFloat(Tail(t))
       ELSE UnsignedFloat(t)

RECURSIVE IntToDigits(_)
IntToDigits(n) ==
    IF n < 10 THEN <<DigitChar(n)>>
    ELSE Append(IntToDigits(n \div 10), DigitChar(n % 10))

\* The fractional digits of str(float): trailing zeros dropped, one digit kept.
RECURSIVE TrimZeros(_)
TrimZeros(s) ==
    IF Len(s) > 1 /\ s[Len(s)] = "0" THEN TrimZeros(SubSeq(s, 1, Len(s) - 1))
    ELSE s
FracText(u) ==
    LET d == IntToDigits(u)
    IN TrimZeros([i \in 1..FracDigits |->
                    IF i <= FracDigits - Len(d) THEN "0"
                    ELSE d[i - (FracDigits - Len(d))]])
\* str(x) of a float x >= 0 below 1e16: "3.0", "2.5".
Str(x) == IntToDigits(x \div Scale) \o <<".">> \o FracText(x % Scale)

(***************************************************************************)
(* The regression model (sklearn's RandomForestRegressor, random_state=42). *)
(* Its state is what it was last fit on: never fit ("fresh"), the artifact *)
(* downloaded at startup ("loaded"), or the pairs of its last fit.         *)
(***************************************************************************)
FreshModel == [kind |-> "fresh", pairs |-> <<>>]
LoadedModel == [kind |-> "loaded", pairs |-> <<>>]

\* Mutant of TrainingPairs: the feature and target columns swapped.
TrainingPairs_swapped(numbers) ==
    [i \in 1..(Len(numbers) - 1) |-> <<numbers[i + 1], numbers[i]>>]

\* The frame of (CrashPoints, NextOutcome) rows built from a list of numbers.
TrainingPairs(numbers) ==
    [i \in 1..(Len(numbers) - 1) |-> <<numbers[i], numbers[i + 1]>>]

\* model.fit(X, y): the forest is rebuilt from the rows given, whatever it held.
Fit(mdl, pairs) == [kind |-> "fit", pairs |-> pairs]

\* model.predict([[x]]) raises NotFittedError on a forest that was never fit.
PredictRaises(mdl) == mdl.kind = "fresh"
\* model.predict([[x]])[0].  The float is identified by the input it was
\* predicted from; the forest that computed it is the model of that turn.
Predict(mdl, x) == [x |-> x]

\* [float(p) for p in crash_points if re.match(...)]
RECURSIVE ValidNumbers(_)
ValidNumbers(crash_points) ==
    IF crash_points = <<>> THEN <<>>
    ELSE LET p == Head(crash_points)
         IN (IF DecimalPattern(p) THEN <<Float(p)>> ELSE <<>>)
              \o ValidNumbers(Tail(crash_points))

\* [float(p) for p in historical_data], where every entry is converted.
AllNumbers(data) == [i \in 1..Len(data) |-> Float(data[i])]
AllParse(data) == \A i \in 1..Len(data) : FloatParses(data[i])

\* Mutant of predict_aviator_outcome: the emptiness test looks at the raw
\* entries instead of the valid numbers, so numbers[-1] raises on a ledger
\* of malformed entries.
predict_aviator_outcome_rawcount(crash_points, mdl) ==
    LET numbers == ValidNumbers(crash_points)
        count == Len(numbers)
        refit == count > 1
        pairs == TrainingPairs(numbers)
        m2 == IF refit THEN Fit(mdl, pairs) ELSE mdl
    IN IF Len(crash_points) = 0
       THEN [message |-> Reply("no_valid_data"), predicted_value |-> None,
             model |-> mdl, fits |-> <<>>, dumps |-> 0,
             predict_from |-> <<>>, raised |-> FALSE]
       ELSE IF count = 0
       THEN [message |-> Reply("no_valid_data"), predicted_value |-> None,
             model |-> mdl, fits |-> <<>>, dumps |-> 0,
             predict_from |-> <<>>, raised |-> TRUE]
       ELSE [message |-> [kind |-> "prediction", numbers |-> numbers,
                          predicted |-> Predict(m2, numbers[count])],
             predicted_value |-> Some(Predict(m2, numbers[count])),
             model |-> m2,
             fits |-> IF refit THEN <<pairs>> ELSE <<>>,
             dumps |-> IF refit THEN 1 ELSE 0,
             predict_from |-> <<numbers[count]>>,
             raised |-> PredictRaises(m2)]

(***************************************************************************)
(* predict_aviator_outcome(crash_points), on the global model mdl.  The    *)
(* result holds the returned message and value, the model after the call,  *)
(* the pair sets fit, the number of dumps to the local artifact, the input *)
(* given to model.predict, and whether the call raised.                    *)
(***************************************************************************)
predict_aviator_outcome(crash_points, mdl) ==
    LET numbers == ValidNumbers(crash_points)
        count == Len(numbers)
        refit == count > 1
        pairs == TrainingPairs(numbers)
        m2 == IF refit THEN Fit(mdl, pairs) ELSE mdl
    IN IF count = 0
       THEN [message |-> Reply("no_valid_data"), predicted_value |-> None,
             model |-> mdl, fits |-> <<>>, dumps |-> 0,
             predict_from |-> <<>>, raised |-> FALSE]
       ELSE [message |-> [kind |-> "prediction", numbers |-> numbers,
                          predicted |-> Predict(m2, numbers[count])],
             predicted_value |-> Some(Predict(m2, numbers[count])),
             model |-> m2,
             fits |-> IF refit THEN <<pairs>> ELSE <<>>,
             dumps |-> IF refit THEN 1 ELSE 0,
             predict_from |-> <<numbers[count]>>,
             raised |-> PredictRaises(m2)]

(***************************************************************************)
(* update_model_with_feedback(feedback, actual_value, ...), on the global  *)
(* ledger data and model mdl; upload_ok tells whether send_document        *)
(* succeeds.  feedback is a text here (the caller's None raises before).   *)
(***************************************************************************)
T_yes == <<"y", "e", "s">>
T_no == <<"n", "o">>

update_model_with_feedback(feedback, actual_value, data, mdl, upload_ok) ==
    LET same == [data |-> data, model |-> mdl, fits |-> <<>>, dumps |-> 0,
                 uploads |-> 0, raised |-> FALSE]
        data2 == Append(data, Str(actual_value))
        numbers == AllNumbers(data2)
        pairs == TrainingPairs(numbers)
    IN IF Lower(feedback) = T_yes THEN same
       ELSE IF Lower(feedback) = T_no
       THEN IF ~AllParse(data2)
            THEN [same EXCEPT !.data = data2, !.raised = TRUE]
            ELSE IF Len(numbers) > 1
            THEN [data |-> data2, model |-> Fit(mdl, pairs), fits |-> <<pairs>>,
                  dumps |-> 1, uploads |-> IF upload_ok THEN 1 ELSE 0,
                  raised |-> FALSE]
            ELSE [same EXCEPT !.data = data2]
       ELSE same

(***************************************************************************)
(* State.                                                                  *)
(***************************************************************************)
VARIABLES
    historical_data,  \* the global ledger: a list of texts
    feedback_data,    \* the global feedback list
    model,            \* the global model
    artifact,         \* random_forest_model.joblib: the model last dumped
    MODEL_FILE_ID,    \* the remote artifact's identifier
    user_data,        \* context.user_data of each user
    environ,          \* os.environ: which configuration values are set
    updater,          \* the global updater: None when init_bot gave up
    turn,             \* what the last update did (history)
    since_clear       \* the entries sent since the last clear (history)

vars == <<historical_data, feedback_data, model, artifact, MODEL_FILE_ID,
          user_data, environ, updater, turn, since_clear>>

NoUserData == [predicted_value |-> None, feedback |-> None]

\* The record of one processed update of user u: what its handler did, and
\* whether the user held a prediction when the update arrived.
Turn(u, text, handler, replies, fits, dumps, uploads, predict_from, raised) ==
    [user |-> u, text |-> text, handler |-> handler,
     pending |-> u \in DOMAIN user_data /\ user_data[u].predicted_value # None,
     replies |-> replies,
     fits |-> fits, dumps |-> dumps, uploads |-> uploads,
     predict_from |-> predict_from, raised |-> raised]

\* Mutant of error_handler: the error is logged and no notice is sent.
error_handler_silent(replies) == replies

\* error_handler: the dispatcher calls it when a handler raised.
error_handler(replies) == Append(replies, Reply("unexpected_error"))

\* The handlers init_bot adds to the dispatcher, all to one group, in this order.
handlers ==
    <<"start", "help_command", "clear_data", "process_crash_points",
      "process_feedback", "process_actual_value">>

(***************************************************************************)
(* load_or_train_model: the artifact named by the configured identifier is *)
(* downloaded and loaded; with no identifier, or when the download fails,  *)
(* a fresh model is made and dumped.                                       *)
(***************************************************************************)
load_or_train_model(file_id, download_ok) ==
    IF file_id # None /\ download_ok THEN LoadedModel ELSE FreshModel

\* The global model before init_bot assigns it, and the artifact file before
\* anything is written to it.
NoModel == [kind |-> "undefined", pairs |-> <<>>]

\* os.environ: each of the three values is set (TRUE) or not.
Environs ==
    [TELEGRAM_BOT_TOKEN : BOOLEAN, TELEGRAM_CHANNEL_ID : BOOLEAN,
     TELEGRAM_MODEL_FILE_ID : BOOLEAN]

\* Mutant of init_bot: the model identifier is not among the required values.
init_bot_optional_id(env, download_ok) ==
    LET file_id == IF env.TELEGRAM_MODEL_FILE_ID THEN [env |-> TRUE] ELSE None
    IN IF ~env.TELEGRAM_BOT_TOKEN \/ ~env.TELEGRAM_CHANNEL_ID
       THEN [updater |-> None, model |-> NoModel]
       ELSE [updater |-> Some(handlers),
             model |-> load_or_train_model(file_id, download_ok)]

\* init_bot(): None when a required value is missing, else the updater with
\* the handlers registered, the global model being loaded or made on the way.
init_bot(env, download_ok) ==
    LET file_id == IF env.TELEGRAM_MODEL_FILE_ID THEN [env |-> TRUE] ELSE None
    IN IF ~env.TELEGRAM_BOT_TOKEN \/ ~env.TELEGRAM_CHANNEL_ID
          \/ ~env.TELEGRAM_MODEL_FILE_ID
       THEN [updater |-> None, model |-> NoModel]
       ELSE [updater |-> Some(handlers),
             model |-> load_or_train_model(file_id, download_ok)]

\* The state once the module is imported, for a set of users.
Startup(users) ==
    \E env \in Environs, download_ok \in BOOLEAN :
       LET b == init_bot(env, download_ok)
       IN /\ environ = env
          /\ updater = b.updater
          /\ model = b.model
          /\ artifact = b.model
          /\ MODEL_FILE_ID =
                IF env.TELEGRAM_MODEL_FILE_ID THEN [env |-> TRUE] ELSE None
          /\ historical_data = <<>>
          /\ feedback_data = <<>>
          /\ user_data = [u \in users |-> NoUserData]
          /\ turn = Turn(0, <<>>, "none", <<>>, <<>>, 0, 0, <<>>, FALSE)
          /\ since_clear = <<>>

Init == Startup(Users)

(***************************************************************************)
(* The handlers.                                                           *)
(***************************************************************************)
start(u, text) ==
    /\ turn' = Turn(u, text, "start", <<Reply("welcome")>>, <<>>, 0, 0, <<>>, FALSE)
    /\ UNCHANGED <<historical_data, feedback_data, model, artifact,
                   MODEL_FILE_ID, user_data>>

help_command(u, text) ==
    /\ turn' = Turn(u, text, "help_command", <<Reply("help")>>, <<>>, 0, 0, <<>>, FALSE)
    /\ UNCHANGED <<historical_data, feedback_data, model, artifact,
                   MODEL_FILE_ID, user_data>>

\* Mutant of clear_data: without the global statement the two assignments
\* bind locals, and the ledger is left as it was.
clear_data_local(u, text) ==
    /\ turn' = Turn(u, text, "clear_data", <<Reply("cleared")>>, <<>>, 0, 0, <<>>, FALSE)
    /\ UNCHANGED <<historical_data, feedback_data, model, artifact,
                   MODEL_FILE_ID, user_data>>

clear_data(u, text) ==
    /\ historical_data' = <<>>
    /\ feedback_data' = <<>>
    /\ turn' = Turn(u, text, "clear_data", <<Reply("cleared")>>, <<>>, 0, 0, <<>>, FALSE)
    /\ UNCHANGED <<model, artifact, MODEL_FILE_ID, user_data>>

\* [point.strip() for point in input_data.split(",") if point.strip()]
RECURSIVE StrippedPoints(_)
StrippedPoints(pieces) ==
    IF pieces = <<>> THEN <<>>
    ELSE (IF Strip(Head(pieces)) # <<>> THEN <<Strip(Head(pieces))>> ELSE <<>>)
           \o StrippedPoints(Tail(pieces))
NewCrashPoints(text) == StrippedPoints(Split(Strip(text)))

\* historical_data.extend(new_crash_points)
Extend(data, new_crash_points) == data \o new_crash_points

\* Mutant of process_crash_points: the ledger is the sender's own, so what
\* another user left in it is not carried over.
process_crash_points_private(u, text) ==
    LET data2 == IF turn.user = u
                 THEN Extend(historical_data, NewCrashPoints(text))
                 ELSE NewCrashPoints(text)
        r == predict_aviator_outcome(data2, model)
    IN /\ Len(data2) <= MaxLedger
       /\ historical_data' = data2
       /\ model' = r.model
       /\ artifact' = IF r.dumps > 0 THEN r.model ELSE artifact
       /\ user_data' =
             IF r.raised THEN user_data
             ELSE [user_data EXCEPT ![u].predicted_value = r.predicted_value]
       /\ turn' = Turn(u, text, "process_crash_points",
                       IF r.raised THEN error_handler(<<>>) ELSE <<r.message>>,
                       r.fits, r.dumps, 0, r.predict_from, r.raised)
       /\ UNCHANGED <<feedback_data, MODEL_FILE_ID>>

process_crash_points(u, text) ==
    LET data2 == Extend(historical_data, NewCrashPoints(text))
        r == predict_aviator_outcome(data2, model)
    IN /\ Len(data2) <= MaxLedger
       /\ historical_data' = data2
       /\ model' = r.model
       /\ artifact' = IF r.dumps > 0 THEN r.model ELSE artifact
       /\ user_data' =
             IF r.raised THEN user_data
             ELSE [user_data EXCEPT ![u].predicted_value = r.predicted_value]
       /\ turn' = Turn(u, text, "process_crash_points",
                       IF r.raised THEN error_handler(<<>>) ELSE <<r.message>>,
                       r.fits, r.dumps, 0, r.predict_from, r.raised)
       /\ UNCHANGED <<feedback_data, MODEL_FILE_ID>>

process_feedback(u, text) ==
    LET feedback == Lower(Strip(text))
    IN /\ IF user_data[u].predicted_value = None
          THEN /\ turn' = Turn(u, text, "process_feedback",
                               <<Reply("no_recent_prediction")>>, <<>>, 0, 0, <<>>, FALSE)
               /\ UNCHANGED user_data
          ELSE /\ turn' = Turn(u, text, "process_feedback",
                               <<Reply("ask_actual_value")>>, <<>>, 0, 0, <<>>, FALSE)
               /\ user_data' = [user_data EXCEPT ![u].feedback = Some(feedback)]
       /\ UNCHANGED <<historical_data, feedback_data, model, artifact,
                      MODEL_FILE_ID>>

process_actual_value(u, text) ==
    LET actual_value == Strip(text)
        feedback == user_data[u].feedback
    IN IF ~DecimalPattern(actual_value) \/ Float(actual_value) <= 0
       THEN /\ turn' = Turn(u, text, "process_actual_value",
                            <<Reply("invalid_actual_value")>>, <<>>, 0, 0, <<>>, FALSE)
            /\ UNCHANGED <<historical_data, feedback_data, model, artifact,
                           MODEL_FILE_ID, user_data>>
       ELSE IF feedback = None
       THEN \* feedback.lower() on None raises AttributeError
            /\ turn' = Turn(u, text, "process_actual_value",
                            error_handler(<<>>), <<>>, 0, 0, <<>>, TRUE)
            /\ UNCHANGED <<historical_data, feedback_data, model, artifact,
                           MODEL_FILE_ID, user_data>>
       ELSE \E upload_ok \in BOOLEAN :
            LET r == update_model_with_feedback(feedback.val,
                         Float(actual_value), historical_data, model, upload_ok)
            IN /\ Len(r.data) <= MaxLedger
               /\ historical_data' = r.data
               /\ model' = r.model
               /\ artifact' = IF r.dumps > 0 THEN r.model ELSE artifact
               /\ MODEL_FILE_ID' =
                     IF r.uploads > 0 THEN [doc |-> r.model] ELSE MODEL_FILE_ID
               /\ turn' = Turn(u, text, "process_actual_value",
                               IF r.raised THEN error_handler(<<>>)
                               ELSE <<Reply("thanks")>>,
                               r.fits, r.dumps, r.uploads, <<>>, r.raised)
               /\ UNCHANGED <<feedback_data, user_data>>

(***************************************************************************)
(* The dispatcher.  init_bot adds the six handlers to one group, in this   *)
(* order; of a group, the dispatcher runs the first handler whose filter   *)
(* takes the update, and no other.                                         *)
(***************************************************************************)
T_cmd_start == <<"/", "s", "t", "a", "r", "t">>
T_cmd_help == <<"/", "h", "e", "l", "p">>
T_cmd_clear == <<"/", "c", "l", "e", "a", "r">>
T_cmd_other == <<"/", "o", "n">>

\* Filters.command: the text starts with a bot command.
IsCommand(text) == Len(text) >= 2 /\ text[1] = "/" /\ text[2] \notin {" ", "/"}
\* Filters.text
IsText(text) == text # <<>>

check_update(handler, text) ==
    CASE handler = "start" -> text = T_cmd_start
      [] handler = "help_command" -> text = T_cmd_help
      [] handler = "clear_data" -> text = T_cmd_clear
      [] handler = "process_crash_points" -> IsText(text) /\ ~IsCommand(text)
      [] handler = "process_feedback" -> text \in {T_yes, T_no}
      [] handler = "process_actual_value" -> DecimalPattern(text)

\* The handler the group runs for a text: the handlers are tried in order
\* from position i, and the first that takes the text is the one and only run.
RECURSIVE HandlerFrom(_, _)
HandlerFrom(i, text) ==
    IF i > Len(handlers) THEN "none"
    ELSE IF check_update(handlers[i], text) THEN handlers[i]
    ELSE HandlerFrom(i + 1, text)
HandlerFor(text) == HandlerFrom(1, text)

\* The callback of handler h run on an update of user u, an exception of the
\* callback going to error_handler.
run_handler(h, u, text) ==
       /\ CASE h = "start" -> start(u, text)
            [] h = "help_command" -> help_command(u, text)
            [] h = "clear_data" -> clear_data(u, text)
            [] h = "process_crash_points" -> process_crash_points(u, text)
            [] h = "process_feedback" -> process_feedback(u, text)
            [] h = "process_actual_value" -> process_actual_value(u, text)
            [] OTHER ->
                 /\ turn' = Turn(u, text, "none", <<>>, <<>>, 0, 0, <<>>, FALSE)
                 /\ UNCHANGED <<historical_data, feedback_data, model, artifact,
                                MODEL_FILE_ID, user_data>>
       /\ since_clear' =
             IF h = "clear_data" THEN <<>>
             ELSE IF h = "process_crash_points"
             THEN since_clear \o NewCrashPoints(text)
             ELSE IF h = "process_actual_value"
                       /\ historical_data' # historical_data
             THEN Append(since_clear, Strip(text))
             ELSE since_clear
       /\ UNCHANGED <<environ, updater>>

\* webhook: with an updater, the update goes to the dispatcher, which runs
\* the first handler of the group that takes it.
process_update(u, text) ==
    /\ updater # None
    /\ run_handler(HandlerFor(text), u, text)

(***************************************************************************)
(* The texts users send.                                                   *)
(***************************************************************************)
T_pair == <<"2", ".", "0", ",", " ", "3", ".", "0">>
T_3_0 == <<"3", ".", "0">>
T_0 == <<"0">>
T_minus1 == <<"-", "1">>
T_comma == <<",">>

CommandTexts == {T_cmd_start, T_cmd_help, T_cmd_clear, T_cmd_other}
PlainTexts ==
    {T_pair, T_3_0, T_0, T_minus1, T_comma, T_yes, T_no}

ReceiveCommand == \E u \in Users, text \in CommandTexts : process_update(u, text)
ReceiveText == \E u \in Users, text \in PlainTexts : process_update(u, text)

Next == ReceiveCommand \/ ReceiveText
Spec == Init /\ [][Next]_vars

(***************************************************************************)
(* The handlers on their own: each callback run on any update its own      *)
(* filter takes, whatever the other handlers of the group.  Every          *)
(* behaviour of the dispatcher is one of these behaviours.                 *)
(***************************************************************************)
T_YES == <<"Y", "E", "S">>
HandlerTexts ==
    {T_cmd_start, T_cmd_help, T_cmd_clear, T_3_0, T_0, T_yes, T_no, T_YES}

CallBy(users, texts, h) ==
    \E u \in users, text \in texts :
       /\ updater # None
       /\ check_update(h, text)
       /\ run_handler(h, u, text)

CallStart == CallBy(Users, HandlerTexts, "start")
CallHelp == CallBy(Users, HandlerTexts, "help_command")
CallClear == CallBy(Users, HandlerTexts, "clear_data")
CallCrashPoints == CallBy(Users, HandlerTexts, "process_crash_points")
CallFeedback == CallBy(Users, HandlerTexts, "process_feedback")
CallActualValue == CallBy(Users, HandlerTexts, "process_actual_value")

NextHandlers ==
    \/ CallStart \/ CallHelp \/ CallClear
    \/ CallCrashPoints \/ CallFeedback \/ CallActualValue
SpecHandlers == Init /\ [][NextHandlers]_vars

(***************************************************************************)
(* Two users sharing the process: observations, feedback, actual values    *)
(* and clears of either user, in any order.                                *)
(***************************************************************************)
TwoUsers == {1, 2}
SharedTexts == {T_cmd_clear, T_pair, T_3_0, T_no}

ShareClear == CallBy(TwoUsers, SharedTexts, "clear_data")
ShareCrashPoints == CallBy(TwoUsers, SharedTexts, "process_crash_points")
ShareFeedback == CallBy(TwoUsers, SharedTexts, "process_feedback")
ShareActualValue == CallBy(TwoUsers, SharedTexts, "process_actual_value")

InitShared == Startup(TwoUsers)
NextShared ==
    ShareClear \/ ShareCrashPoints \/ ShareFeedback \/ ShareActualValue
SpecShared == InitShared /\ [][NextShared]_vars
(***************************************************************************)
(* Notions the claims use.                                                 *)
(***************************************************************************)
NoValidData == Reply("no_valid_data")
IsPredictTurn(t) == t.handler = "process_crash_points"
Pending(u) == user_data[u].predicted_value # None
OnlyValidEntries(data) == \A i \in 1..Len(data) : DecimalPattern(data[i])
NoValidEntry(data) == \A i \in 1..Len(data) : ~DecimalPattern(data[i])
\* The pairs (v[i], v[i+1]), i in 1..n-1, of a list of numbers v.
ConsecutivePairs(v) == [i \in 1..(Len(v) - 1) |-> <<v[i], v[i + 1]>>]
\* A text that is a positive decimal: an acceptable actual value.
PositiveDecimal(text) == DecimalPattern(Strip(text)) /\ Float(Strip(text)) > 0
IsFeedbackText(text) == Lower(Strip(text)) \in {T_yes, T_no}
\* A one-value reply that is neither feedback nor an acceptable actual value.
\* The update t answers the feedback fb: the update before it was that
\* feedback, from the same user, sent while a prediction was pending.
Answers(t, fb) ==
    turn.user = t.user /\ turn.pending /\ Lower(Strip(turn.text)) = fb
BadActualValue(text) ==
    /\ IsText(text) /\ ~IsCommand(text) /\ ~IsFeedbackText(text)
    /\ \A i \in 1..Len(text) : text[i] # ","
    /\ ~PositiveDecimal(text)

C2_BothSitesSameNumbers ==
    /\ AllParse(historical_data)
    /\ ValidNumbers(historical_data) = AllNumbers(historical_data)
    /\ \A k \in 1..Len(turn.fits) :
          turn.fits[k] = ConsecutivePairs(AllNumbers(historical_data))

(***************************************************************************)
(* C3.  The entries of an observation message that fail the non-negative   *)
(* decimal pattern are dropped and never become ledger elements: what the  *)
(* message adds to the ledger matches the pattern.  (Stated as claimed;    *)
(* the code violates it.)                                                  *)
(***************************************************************************)
C3_ObservationStep ==
    LET t == turn'
    IN (IsText(t.text) /\ ~IsCommand(t.text) /\ ~IsFeedbackText(t.text)) =>
          \A i \in (Len(historical_data) + 1)..Len(historical_data') :
             DecimalPattern(historical_data'[i])
C3_LedgerOnlyValid == [][C3_ObservationStep]_vars

(***************************************************************************)
(* C4.  A "yes" message, and the actual value that completes its flow,     *)
(* leave the ledger as it was and cause no refit.  (Stated as claimed; the *)
(* code violates it.)                                                      *)
(***************************************************************************)
C4_YesStep ==
    LET t == turn'
    IN /\ Lower(Strip(t.text)) = T_yes =>
             (historical_data' = historical_data /\ t.fits = <<>>)
       /\ (Answers(t, T_yes) /\ PositiveDecimal(t.text)) =>
             (historical_data' = historical_data /\ t.fits = <<>>)
C4_YesNeverMutatesLedger == [][C4_YesStep]_vars

(***************************************************************************)
(* C5.  Feedback "no" to a pending prediction followed by a valid positive *)
(* actual value appends exactly one element, that value, and triggers      *)
(* exactly one refit on the pairs of the whole extended ledger.  (Stated   *)
(* as claimed; the code violates it.)                                      *)
(***************************************************************************)
C5_NoStep ==
    LET t == turn'
    IN /\ (Lower(Strip(t.text)) = T_no /\ Pending(t.user)) =>
             historical_data' = historical_data
       /\ (Answers(t, T_no) /\ PositiveDecimal(t.text)) =>
             /\ Len(historical_data') = Len(historical_data) + 1
             /\ SubSeq(historical_data', 1, Len(historical_data)) = historical_data
             /\ FloatParses(historical_data'[Len(historical_data')])
             /\ Float(historical_data'[Len(historical_data')]) = Float(Strip(t.text))
             /\ AllParse(historical_data')
             /\ t.fits = <<ConsecutivePairs(AllNumbers(historical_data'))>>
C5_NoThenValueAppendsOne == [][C5_NoStep]_vars

(***************************************************************************)
(* C6.  After feedback "no", a text that is no positive decimal ("0", a    *)
(* negative number, non-decimal text) is rejected with a re-prompt, and    *)
(* the ledger, the model and the user's stored feedback and prediction are *)
(* unchanged.  (Stated as claimed; the code violates it.)                  *)
(***************************************************************************)
C6_BadValueStep ==
    LET t == turn'
    IN (Answers(t, T_no) /\ BadActualValue(t.text)) =>
          /\ t.replies = <<Reply("invalid_actual_value")>>
          /\ historical_data' = historical_data
          /\ model' = model
          /\ user_data' = user_data
C6_BadActualValueRejected == [][C6_BadValueStep]_vars

(***************************************************************************)
(* C7.  When the ledger holds no valid number at predict time, the predict *)
(* step answers "no valid data" with a null prediction, fits nothing,      *)
(* persists nothing, and leaves the user with no pending prediction.       *)
(***************************************************************************)
C7_State ==
    (IsPredictTurn(turn) /\ NoValidEntry(historical_data)) =>
        /\ turn.replies = <<NoValidData>>
        /\ user_data[turn.user].predicted_value = None
        /\ turn.fits = <<>> /\ turn.dumps = 0 /\ turn.uploads = 0
        /\ turn.predict_from = <<>> /\ ~turn.raised
C7_Step ==
    (IsPredictTurn(turn') /\ NoValidEntry(historical_data')) =>
        (model' = model /\ artifact' = artifact /\ MODEL_FILE_ID' = MODEL_FILE_ID)
C7_NoValidDataNoRefit == []C7_State /\ [][C7_Step]_vars

\* Only malformed entries were appended to the empty ledger.
C7_Witness ==
    /\ IsPredictTurn(turn)
    /\ Len(historical_data) >= 1 /\ NoValidEntry(historical_data)
    /\ turn.replies = <<NoValidData>>
    /\ user_data[turn.user].predicted_value = None

(***************************************************************************)
(* C8.  The clear command empties the ledger; a predict made right after   *)
(* it with no new observations answers "no valid data" with a null         *)
(* prediction; and every fit is on numbers sent since the last clear only. *)
(***************************************************************************)
SentSinceClear == {Float(since_clear[i]) :
                      i \in {j \in 1..Len(since_clear) : DecimalPattern(since_clear[j])}}
C8_State ==
    /\ turn.handler = "clear_data" => (historical_data = <<>> /\ feedback_data = <<>>)
    /\ \A k \in 1..Len(turn.fits) :
          /\ Len(turn.fits[k]) < Len(since_clear)
          /\ \A i \in 1..Len(turn.fits[k]) :
                turn.fits[k][i][1] \in SentSinceClear
                  /\ turn.fits[k][i][2] \in SentSinceClear
C8_Step ==
    (turn.handler = "clear_data" /\ IsPredictTurn(turn')
       /\ NewCrashPoints(turn'.text) = <<>>) =>
        (turn'.replies = <<NoValidData>>
           /\ user_data'[turn'.user].predicted_value = None)
C8_ClearEmptiesLedger == []C8_State /\ [][C8_Step]_vars

\* Observations were fit, the ledger was cleared, and a predict with no new
\* observation answered "no valid data".
C8_Witness ==
    /\ IsPredictTurn(turn) /\ NewCrashPoints(turn.text) = <<>>
    /\ model.kind = "fit" /\ historical_data = <<>>
    /\ turn.replies = <<NoValidData>>

(***************************************************************************)
(* C9.  Feedback arriving while the user has no pending prediction is      *)
(* answered "no recent prediction", and neither the ledger nor the model   *)
(* changes.  (Stated as claimed; the code violates it.)                    *)
(***************************************************************************)
C9_FeedbackStep ==
    LET t == turn'
    IN (IsFeedbackText(t.text) /\ ~Pending(t.user)) =>
          /\ t.replies = <<Reply("no_recent_prediction")>>
          /\ historical_data' = historical_data
          /\ model' = model
C9_FeedbackWithoutPrediction == [][C9_FeedbackStep]_vars

(***************************************************************************)
(* C10.  Once a feedback flow completes ("yes", or "no" and an accepted    *)
(* actual value), the user holds no pending prediction and no pending      *)
(* feedback.  (Stated as claimed; the code violates it.)                   *)
(***************************************************************************)
C10_ResolveStep ==
    LET t == turn'
    IN /\ (Lower(Strip(t.text)) = T_yes /\ Pending(t.user)) =>
             user_data'[t.user] = NoUserData
       /\ (Answers(t, T_no) /\ PositiveDecimal(t.text)) =>
             user_data'[t.user] = NoUserData
C10_RecordClearedWhenResolved == [][C10_ResolveStep]_vars

(***************************************************************************)
(* C13.  Startup is fatal exactly when the bot token or the channel        *)
(* identifier is absent; with both present and no model identifier the bot *)
(* initialises with a fresh model and its handlers registered.  (Stated as *)
(* claimed; the code violates it.)                                         *)
(***************************************************************************)
AtStartup == turn.user = 0
C13_StartupFatalExactly ==
    /\ (updater = None) <=>
          (~environ.TELEGRAM_BOT_TOKEN \/ ~environ.TELEGRAM_CHANNEL_ID)
    /\ (AtStartup /\ environ.TELEGRAM_BOT_TOKEN /\ environ.TELEGRAM_CHANNEL_ID
          /\ ~environ.TELEGRAM_MODEL_FILE_ID) =>
             (updater = Some(handlers) /\ model = FreshModel)

(***************************************************************************)
(* C14.  A "yes"/"no" reply to a pending prediction is handled by          *)
(* process_feedback, and a numeric reply while an actual value is awaited  *)
(* by process_actual_value; neither is appended to the ledger by           *)
(* process_crash_points.  (Stated as claimed; the code violates it.)       *)
(***************************************************************************)
C14_RoutingStep ==
    LET t == turn'
    IN /\ (t.text \in {T_yes, T_no} /\ t.pending) =>
             t.handler = "process_feedback"
       /\ (Answers(t, T_no) /\ DecimalPattern(t.text)) =>
             t.handler = "process_actual_value"
C14_RepliesRoutedByState == [][C14_RoutingStep]_vars

(***************************************************************************)
(* C15.  With exactly one valid number in the ledger, the predict step     *)
(* refits nothing, persists nothing, and produces a predicted value from   *)
(* that number, whether the model was fit before or never.  (Stated as     *)
(* claimed; the code violates it.)                                         *)
(***************************************************************************)
C15_SingleNumberPredicts ==
    (IsPredictTurn(turn) /\ Len(ValidNumbers(historical_data)) = 1) =>
        LET x == ValidNumbers(historical_data)[1]
        IN /\ turn.fits = <<>> /\ turn.dumps = 0 /\ turn.uploads = 0
           /\ turn.predict_from = <<x>>
           /\ ~turn.raised
           /\ user_data[turn.user].predicted_value = Some(Predict(model, x))

(***************************************************************************)
(* C17.  Persistence occurs exactly when a refit occurs: a turn that       *)
(* refits dumps the artifact to the local file and uploads it to the       *)
(* channel, the stored identifier naming the upload; a turn that does not  *)
(* refit persists nothing.  (Stated as claimed; the code violates it.)     *)
(***************************************************************************)
C17_PersistIffRefit ==
    /\ turn.fits # <<>> =>
          /\ turn.dumps = Len(turn.fits) /\ artifact = model
          /\ turn.uploads = Len(turn.fits) /\ MODEL_FILE_ID = [doc |-> model]
    /\ turn.fits = <<>> => (turn.dumps = 0 /\ turn.uploads = 0)

(***************************************************************************)
(* C18.  When the handling of a message raises, the user is sent the       *)
(* "unexpected error" notice and nothing else, nothing of the turn is      *)
(* done again, and the bot still takes the messages that follow.           *)
(***************************************************************************)
C18_ErrorNoticeAndGoOn ==
    turn.raised =>
        /\ turn.replies = <<Reply("unexpected_error")>>
        /\ Len(turn.fits) <= 1 /\ turn.dumps <= 1 /\ turn.uploads <= 1
        /\ updater # None
        /\ ENABLED Next

\* The first observation sent to a never-fit model: model.predict raised.
C18_Witness ==
    /\ turn.raised /\ IsPredictTurn(turn)
    /\ model = FreshModel /\ Len(historical_data) = 1
    /\ turn.replies = <<Reply("unexpected_error")>>

(***************************************************************************)
(* C11.  Of the feedback to a pending prediction, only "no" leads to the   *)
(* prompt for the actual value; on "yes" no actual value is requested.     *)
(* (Stated as claimed; the code violates it.)                              *)
(***************************************************************************)
C11_FeedbackStep ==
    LET t == turn'
    IN (t.handler = "process_feedback" /\ t.pending) =>
          /\ Lower(Strip(t.text)) = T_no =>
                t.replies = <<Reply("ask_actual_value")>>
          /\ Lower(Strip(t.text)) = T_yes =>
                t.replies # <<Reply("ask_actual_value")>>
C11_OnlyNoAsksActualValue == [][C11_FeedbackStep]_vars

(***************************************************************************)
(* C12.  The feedback step takes "yes" and "no" in any letter case: such a *)
(* reply to a pending prediction is handled by process_feedback and is not *)
(* added to the ledger.  (Stated as claimed; the code violates it.)        *)
(***************************************************************************)
C12_AnyCaseStep ==
    LET t == turn'
    IN (IsFeedbackText(t.text) /\ t.text \notin {T_yes, T_no} /\ t.pending) =>
          /\ t.handler = "process_feedback"
          /\ historical_data' = historical_data
C12_FeedbackAnyLetterCase == [][C12_AnyCaseStep]_vars

(***************************************************************************)
(* C16.  The ledger and the model are one for all users: a predict of one  *)
(* user right after a turn of the other extends the ledger the other left  *)
(* and fits the pairs of all of it; an accepted corrective value is        *)
(* appended to that same ledger; a clear of either user empties it, and    *)
(* the other user's predict then starts from the empty ledger.             *)
(***************************************************************************)
C16_SharedStep ==
    LET t == turn'
        v == ValidNumbers(historical_data')
    IN /\ (IsPredictTurn(t) /\ t.user # turn.user) =>
             /\ historical_data' = historical_data \o NewCrashPoints(t.text)
             /\ t.fits = IF Len(v) >= 2 THEN <<ConsecutivePairs(v)>> ELSE <<>>
             /\ Len(v) >= 2 => model'.pairs = ConsecutivePairs(v)
       /\ (t.handler = "process_actual_value" /\ t.replies = <<Reply("thanks")>>
             /\ user_data[t.user].feedback = Some(T_no)) =>
             historical_data' =
                Append(historical_data, Str(Float(Strip(t.text))))
       /\ t.handler = "clear_data" => historical_data' = <<>>
       /\ (turn.handler = "clear_data" /\ IsPredictTurn(t)
             /\ t.user # turn.user) =>
             historical_data' = NewCrashPoints(t.text)
C16_LedgerSharedByUsers == [][C16_SharedStep]_vars

\* User 1 holds a prediction made from 3.0; user 2, who held none, sent 3.0
\* and the pair (3.0, 3.0) was fit.
C16_Witness ==
    /\ IsPredictTurn(turn) /\ turn.user = 2 /\ ~turn.pending
    /\ turn.text = T_3_0
    /\ user_data[1].predicted_value = Some(Predict(model, 3 * Scale))
    /\ historical_data = <<T_3_0, T_3_0>>
    /\ turn.fits = << << <<3 * Scale, 3 * Scale>> >> >>

(***************************************************************************)
(* C19.  When the corrective-feedback step fails before its refit, the     *)
(* ledger is left as it was before the step.  (Stated as claimed; the code *)
(* violates it.)                                                           *)
(***************************************************************************)
C19_FailedUpdateStep ==
    LET t == turn'
    IN (t.handler = "process_actual_value" /\ t.raised) =>
          historical_data' = historical_data
C19_UpdateAllOrNothing == [][C19_FailedUpdateStep]_vars

(***************************************************************************)
(* C20.  process_actual_value raises no error, and appends to the ledger   *)
(* only when the user holds a prediction and the stored feedback "no";     *)
(* otherwise it leaves the ledger and the model as they were.  (Stated as  *)
(* claimed; the code violates it.)                                         *)
(***************************************************************************)
C20_ActualValueStep ==
    LET t == turn'
        holds == /\ user_data[t.user].predicted_value # None
                 /\ user_data[t.user].feedback = Some(T_no)
    IN t.handler = "process_actual_value" =>
          /\ ~t.raised
          /\ ~holds => (historical_data' = historical_data /\ model' = model)
C20_AppendsOnlyOnPendingNo == [][C20_ActualValueStep]_vars

=============================================================================
